---- MODULE Spec2Model ----
(***************************************************************************)
(* A model of synergy-bridge: the Synergy frame parser                     *)
(* (synergy_client.py), the screen translator (translator.py), the HID     *)
(* report codec and gadget writer (hid_gadget.py) and the bridge loop      *)
(* (cli.py run_bridge).                                                    *)
(*                                                                         *)
(* Bytes are integers 0..255 and byte strings are sequences of them.       *)
(* A Python exception leaving a function is modelled as a result record    *)
(* whose type names the exception.                                         *)
(***************************************************************************)
EXTENDS Integers, Sequences, FiniteSets, TLC

VARIABLES
    \* ---- SynergyProtocolParser and the bytes given to it
    frames,          \* the messages the sender put on the stream, in order
    stream,          \* their encoding: the bytes of the whole stream
    fed,             \* how many bytes of stream were given to feed so far
    buffer,          \* SynergyProtocolParser._buffer
    returned,        \* the events returned by the feed calls so far, concatenated
    feedStatus,      \* "ok", or "raised" once an exception left a feed call
    midFrame,        \* TRUE once some feed call returned leaving bytes buffered
    \* ---- SynergyTranslator
    config,          \* SynergyTranslator._config: screens and hid_range
    use_absolute,    \* SynergyTranslator._use_absolute
    current_screen,  \* SynergyTranslator._current_screen
    last_position,   \* SynergyTranslator._last_position
    inputs,          \* the pointer moves the translator may be given
    lastCall,        \* the last translate call: its event, the state before it, its result
    \* ---- the report codec called directly
    built,           \* the last codec call: the function, its arguments, its result
    \* ---- run_bridge and its environment
    args,            \* the command line: relative, health_interval > 0, the layout given
    session,         \* "Disconnected", "Streaming" or "Closed"
    outcome,         \* "running", "returned", "interrupted", "SystemExit" or "raised"
    error,           \* the exception that left run_bridge, None if none
    socketOpen,      \* SynergyClient._socket is not None
    next_health,     \* run_bridge's next_health is not None
    state,           \* RuntimeState
    pending,         \* events feed returned that iter_events has not yielded yet
    healthLog,       \* the last log_health message, None if none
    step,            \* the last event handled and the reports written for it
    env,             \* the server: the messages it may send, burst and short-read sizes
    budget,          \* how many more messages the server sends
    wire,            \* bytes sent by the server and not received yet
    peerClosed       \* the server closed the connection

parserVars == <<frames, stream, fed, buffer, returned, feedStatus, midFrame>>
translatorVars == <<config, use_absolute, current_screen, last_position, inputs, lastCall>>

codecVars == <<built>>

bridgeVars == <<args, session, outcome, error, socketOpen, next_health, state, pending,
                healthLog, step, env, budget, wire, peerClosed>>

vars == <<parserVars, translatorVars, codecVars, bridgeVars>>

-----------------------------------------------------------------------------
(* Bounds of the model *)

\* the number of frames of a stream given to the parser
MaxFrames == 2

\* the pointer positions given to the small layouts: x in -1..GridW, y in -1..GridH
GridW == 7
GridH == 3

\* the longest key list given to build_keyboard_report
MaxKeyList == 7

\* the number of messages the server sends in a session, and in a session of key messages
MaxSent == 3
MaxKeysSent == 7

\* the number of messages the server sends in a session of button messages
MaxButtonsSent == 4

\* the number of messages the server sends in a session that is about its start and end
MaxSessionSent == 2

\* the most messages the server sends at once, and the length of a short read
MaxBurst == 2
MaxCut == 3

-----------------------------------------------------------------------------
(* Sequences *)

RECURSIVE Concat(_)
Concat(ss) == IF Len(ss) = 0 THEN <<>> ELSE Head(ss) \o Concat(Tail(ss))

Range(s) == {s[i] : i \in DOMAIN s}

\* the sequences over S of length at most n
RECURSIVE SeqsUpTo(_, _)
SeqsUpTo(S, n) ==
    IF n = 0 THEN {<<>>}
    ELSE LET shorter == SeqsUpTo(S, n - 1)
         IN  shorter \cup {Append(s, x) : s \in {t \in shorter : Len(t) = n - 1}, x \in S}

Max(a, b) == IF a >= b THEN a ELSE b
Min(a, b) == IF a <= b THEN a ELSE b

-----------------------------------------------------------------------------
(* The sender's side: messages and their encoding as frames.  A message is *)
(* a sequence of tokens; a token is an integer (written in decimal, as the *)
(* sender's str(int) does) or a literal byte string.  Sep is the byte      *)
(* string written between two tokens.                                      *)

Num(n)  == [kind |-> "int", val |-> n]
Lit(w) == [kind |-> "word", text |-> w]

\* the ASCII bytes of the message tags
TagBytes == [DMMV |-> <<68, 77, 77, 86>>, DMMB |-> <<68, 77, 77, 66>>,
             DKDN |-> <<68, 75, 68, 78>>, DKUP |-> <<68, 75, 85, 80>>,
             CINN |-> <<67, 73, 78, 78>>, COUT |-> <<67, 79, 85, 84>>,
             XXXX |-> <<88, 88, 88, 88>>]

Tag(t) == Lit(TagBytes[t])

RECURSIVE DecDigits(_)
DecDigits(n) == IF n < 10 THEN <<48 + n>> ELSE DecDigits(n \div 10) \o <<48 + (n % 10)>>

\* str(n): decimal digits, with a leading minus sign for a negative number
Str(n) == IF n < 0 THEN <<45>> \o DecDigits(-n) ELSE DecDigits(n)

TokenBytes(t) == IF t.kind = "int" THEN Str(t.val) ELSE t.text

RECURSIVE JoinTokens(_, _)
JoinTokens(toks, sep) ==
    IF Len(toks) = 0 THEN <<>>
    ELSE IF Len(toks) = 1 THEN TokenBytes(toks[1])
    ELSE TokenBytes(toks[1]) \o sep \o JoinTokens(Tail(toks), sep)

Msg(toks, sep) == [toks |-> toks, sep |-> sep]

Payload(m) == JoinTokens(m.toks, m.sep)

\* length.to_bytes(4, "big")
ToBytesBE4(n) == << (n \div 16777216) % 256, (n \div 65536) % 256, (n \div 256) % 256, n % 256 >>

\* one frame: 4-byte big-endian length prefix, then the payload
EncodeFrame(m) == ToBytesBE4(Len(Payload(m))) \o Payload(m)

EncodeStream(ms) == Concat([i \in 1..Len(ms) |-> EncodeFrame(ms[i])])

SP == <<32>>

-----------------------------------------------------------------------------
(* Events (synergy_client.py dataclasses) and results *)

MouseMoveEvent(x, y, absolute) == [type |-> "MouseMoveEvent", x |-> x, y |-> y, absolute |-> absolute]
MouseButtonEvent(button, pressed) == [type |-> "MouseButtonEvent", button |-> button, pressed |-> pressed]
KeyEvent(keycode, modifiers, pressed) ==
    [type |-> "KeyEvent", keycode |-> keycode, modifiers |-> modifiers, pressed |-> pressed]
ScreenTransitionEvent(screen, entered) == [type |-> "ScreenTransitionEvent", screen |-> screen, entered |-> entered]

None == [type |-> "None"]
\* ValueError, and UnicodeDecodeError which is a ValueError
ValueError == [type |-> "ValueError"]

-----------------------------------------------------------------------------
(* bytes.decode("utf-8"), str.split() and int() *)

IsCont(b) == b >= 128 /\ b <= 191

\* the number of bytes of the well-formed UTF-8 sequence starting at p[i], 0 if none
Utf8SeqLen(p, i) ==
    LET n == Len(p)
        b == p[i]
        c1 == IF i + 1 <= n THEN p[i + 1] ELSE 0
        c2 == IF i + 2 <= n THEN p[i + 2] ELSE 0
        c3 == IF i + 3 <= n THEN p[i + 3] ELSE 0
    IN  IF b <= 127 THEN 1
        ELSE IF b >= 194 /\ b <= 223 THEN (IF IsCont(c1) THEN 2 ELSE 0)
        ELSE IF b = 224 THEN (IF c1 >= 160 /\ c1 <= 191 /\ IsCont(c2) THEN 3 ELSE 0)
        ELSE IF b = 237 THEN (IF c1 >= 128 /\ c1 <= 159 /\ IsCont(c2) THEN 3 ELSE 0)
        ELSE IF b >= 225 /\ b <= 239 THEN (IF IsCont(c1) /\ IsCont(c2) THEN 3 ELSE 0)
        ELSE IF b = 240 THEN (IF c1 >= 144 /\ c1 <= 191 /\ IsCont(c2) /\ IsCont(c3) THEN 4 ELSE 0)
        ELSE IF b >= 241 /\ b <= 243 THEN (IF IsCont(c1) /\ IsCont(c2) /\ IsCont(c3) THEN 4 ELSE 0)
        ELSE IF b = 244 THEN (IF c1 >= 128 /\ c1 <= 143 /\ IsCont(c2) /\ IsCont(c3) THEN 4 ELSE 0)
        ELSE 0

RECURSIVE Utf8ValidFrom(_, _)
Utf8ValidFrom(p, i) ==
    IF i > Len(p) THEN TRUE
    ELSE LET k == Utf8SeqLen(p, i) IN k > 0 /\ Utf8ValidFrom(p, i + k)

\* payload.decode("utf-8") succeeds
Utf8Valid(p) == Utf8ValidFrom(p, 1)

\* the ASCII characters str.split() separates on
IsSpace(b) == b \in {9, 10, 11, 12, 13, 28, 29, 30, 31, 32}

RECURSIVE SplitFrom(_, _, _, _)
SplitFrom(text, i, cur, acc) ==
    IF i > Len(text) THEN (IF Len(cur) > 0 THEN Append(acc, cur) ELSE acc)
    ELSE IF IsSpace(text[i])
         THEN SplitFrom(text, i + 1, <<>>, IF Len(cur) > 0 THEN Append(acc, cur) ELSE acc)
         ELSE SplitFrom(text, i + 1, Append(cur, text[i]), acc)

\* text.split(): the maximal runs of non-whitespace characters
Split(text) == SplitFrom(text, 1, <<>>, <<>>)

IsDigit(b) == b >= 48 /\ b <= 57

\* the part of an int() literal after its sign: digits, single underscores between digits
IsDigitString(d) ==
    /\ Len(d) > 0
    /\ IsDigit(d[1]) /\ IsDigit(d[Len(d)])
    /\ \A i \in 1..Len(d) : IsDigit(d[i]) \/ (d[i] = 95 /\ IsDigit(d[i - 1]) /\ IsDigit(d[i + 1]))

Unsigned(tok) == IF Len(tok) > 0 /\ tok[1] \in {43, 45} THEN Tail(tok) ELSE tok

\* int(tok) does not raise ValueError
IsIntLiteral(tok) == IsDigitString(Unsigned(tok))

RECURSIVE DigitsValue(_, _)
DigitsValue(d, acc) ==
    IF Len(d) = 0 THEN acc
    ELSE IF d[1] = 95 THEN DigitsValue(Tail(d), acc)
    ELSE DigitsValue(Tail(d), 10 * acc + (d[1] - 48))

\* int(tok), for a tok that IsIntLiteral
IntValue(tok) ==
    IF tok[1] = 45 THEN 0 - DigitsValue(Unsigned(tok), 0) ELSE DigitsValue(Unsigned(tok), 0)

-----------------------------------------------------------------------------
(* SynergyProtocolParser *)

\* _parse_payload with the button flag read as "anything but 0" and key-up read as key-down
parse_payload_flagNotZero(payload) ==
    LET parts == Split(payload) IN
        IF ~Utf8Valid(payload) THEN ValueError
        ELSE IF Len(parts) = 3 /\ parts[1] = TagBytes.DMMB /\ IsIntLiteral(parts[2])
        THEN MouseButtonEvent(IntValue(parts[2]), parts[3] # <<48>>)
        ELSE IF Len(parts) = 3 /\ parts[1] = TagBytes.DMMV
                /\ IsIntLiteral(parts[2]) /\ IsIntLiteral(parts[3])
        THEN MouseMoveEvent(IntValue(parts[2]), IntValue(parts[3]), TRUE)
        ELSE IF Len(parts) = 3 /\ parts[1] \in {TagBytes.DKDN, TagBytes.DKUP}
                /\ IsIntLiteral(parts[2]) /\ IsIntLiteral(parts[3])
        THEN KeyEvent(IntValue(parts[2]), IntValue(parts[3]), parts[1] = TagBytes.DKDN)
        ELSE IF Len(parts) = 3 /\ parts[1] \in {TagBytes.DMMV, TagBytes.DMMB, TagBytes.DKDN, TagBytes.DKUP}
        THEN ValueError
        ELSE IF Len(parts) = 2 /\ parts[1] \in {TagBytes.CINN, TagBytes.COUT}
        THEN ScreenTransitionEvent(parts[2], parts[1] = TagBytes.CINN)
        ELSE None

\* _parse_payload: the event, None, or the exception that leaves it
parse_payload(payload) ==
    IF ~Utf8Valid(payload) THEN ValueError
    ELSE LET parts == Split(payload) IN
        IF Len(parts) = 0 THEN None
        ELSE IF parts[1] = TagBytes.DMMV /\ Len(parts) = 3 THEN
            IF IsIntLiteral(parts[2]) /\ IsIntLiteral(parts[3])
            THEN MouseMoveEvent(IntValue(parts[2]), IntValue(parts[3]), TRUE)
            ELSE ValueError
        ELSE IF parts[1] = TagBytes.DMMB /\ Len(parts) = 3 THEN
            IF IsIntLiteral(parts[2])
            THEN MouseButtonEvent(IntValue(parts[2]), parts[3] = <<49>>)
            ELSE ValueError
        ELSE IF parts[1] = TagBytes.DKDN /\ Len(parts) = 3 THEN
            IF IsIntLiteral(parts[2]) /\ IsIntLiteral(parts[3])
            THEN KeyEvent(IntValue(parts[2]), IntValue(parts[3]), TRUE)
            ELSE ValueError
        ELSE IF parts[1] = TagBytes.DKUP /\ Len(parts) = 3 THEN
            IF IsIntLiteral(parts[2]) /\ IsIntLiteral(parts[3])
            THEN KeyEvent(IntValue(parts[2]), IntValue(parts[3]), FALSE)
            ELSE ValueError
        ELSE IF parts[1] = TagBytes.CINN /\ Len(parts) = 2 THEN
            ScreenTransitionEvent(parts[2], TRUE)
        ELSE IF parts[1] = TagBytes.COUT /\ Len(parts) = 2 THEN
            ScreenTransitionEvent(parts[2], FALSE)
        ELSE None

\* int.from_bytes(b[:4], "big")
FromBytesBE4(b) == ((b[1] * 256 + b[2]) * 256 + b[3]) * 256 + b[4]

\* feed extracting at most one frame in a call
FeedLoop_oneFrame(buf, events) ==
    IF Len(buf) < 4 THEN [buffer |-> buf, events |-> events, raised |-> FALSE]
    ELSE LET length == FromBytesBE4(buf) IN
        IF Len(buf) < 4 + length THEN [buffer |-> buf, events |-> events, raised |-> FALSE]
        ELSE LET payload == SubSeq(buf, 5, 4 + length)
                 rest    == SubSeq(buf, 5 + length, Len(buf))
                 event   == parse_payload(payload)
             IN  IF event = ValueError
                 THEN [buffer |-> rest, events |-> <<>>, raised |-> TRUE]
                 ELSE [buffer |-> rest, raised |-> FALSE,
                       events |-> IF event # None THEN Append(events, event) ELSE events]

\* the while loop of feed, from the buffer buf with the events collected so far
RECURSIVE FeedLoop(_, _)
FeedLoop(buf, events) ==
    IF Len(buf) < 4 THEN [buffer |-> buf, events |-> events, raised |-> FALSE]
    ELSE LET length == FromBytesBE4(buf) IN
        IF Len(buf) < 4 + length THEN [buffer |-> buf, events |-> events, raised |-> FALSE]
        ELSE LET payload == SubSeq(buf, 5, 4 + length)
                 rest    == SubSeq(buf, 5 + length, Len(buf))
                 event   == parse_payload(payload)
             IN  IF event = ValueError
                 THEN [buffer |-> rest, events |-> <<>>, raised |-> TRUE]
                 ELSE FeedLoop(rest, IF event # None THEN Append(events, event) ELSE events)

\* feed losing the bytes of an incomplete frame instead of keeping them buffered
feed_dropsPartial(buf, data) == [FeedLoop(buf \o data, <<>>) EXCEPT !.buffer = <<>>]

\* feed(data) on a parser whose buffer is buf: the buffer it leaves, the events it
\* returns, and whether an exception left it instead (the frame that raised is
\* already deleted from the buffer, the events collected in this call are lost)
feed(buf, data) == FeedLoop(buf \o data, <<>>)

-----------------------------------------------------------------------------
(* translator.py *)

AbsoluteCoordinateRange(min_x, min_y, max_x, max_y) ==
    [min_x |-> min_x, min_y |-> min_y, max_x |-> max_x, max_y |-> max_y]

\* AbsoluteCoordinateRange(): 0 .. 0x7FFF on both axes
DefaultRange == AbsoluteCoordinateRange(0, 0, 32767, 32767)

ScreenLayout(name, x, y, width, height) ==
    [name |-> name, x |-> x, y |-> y, width |-> width, height |-> height]

ScreenLayoutConfig(screens, hid_range) == [screens |-> screens, hid_range |-> hid_range]

HidPointerEvent(x, y, absolute) == [type |-> "HidPointerEvent", x |-> x, y |-> y, absolute |-> absolute]

Position(x, y) == [x |-> x, y |-> y]

\* ScreenLayout.contains
contains(screen, x, y) ==
    /\ screen.x <= x /\ x < screen.x + screen.width
    /\ screen.y <= y /\ y < screen.y + screen.height

\* round(n / d) for d > 0 as Python rounds: to the nearest integer, a tie to the even
\* one.  The quotient is exact here; the code rounds the double nearest to it.
Round(n, d) ==
    LET q == n \div d
        r == n - q * d
    IN  IF 2 * r < d THEN q
        ELSE IF 2 * r > d THEN q + 1
        ELSE IF q % 2 = 0 THEN q ELSE q + 1

\* _scale_axis truncating (int(scaled)) where the code rounds
scale_axis_truncating(value, source_min, source_max, target_min, target_max) ==
    IF source_max = source_min THEN target_min
    ELSE LET d == source_max - source_min
             n == target_min * d + (value - source_min) * (target_max - target_min)
             scaled == IF n >= 0 THEN n \div d ELSE 0 - ((0 - n) \div d)
         IN  Max(Min(scaled, target_max), target_min)

\* _scale_axis
scale_axis(value, source_min, source_max, target_min, target_max) ==
    IF source_max = source_min THEN target_min
    ELSE LET d == source_max - source_min
             scaled == IF d > 0
                       THEN Round(target_min * d + (value - source_min) * (target_max - target_min), d)
                       ELSE Round(0 - (target_min * d + (value - source_min) * (target_max - target_min)), 0 - d)
         IN  Max(Min(scaled, target_max), target_min)

\* map_to_hid scaling over the whole extent (0 .. width) where the code scales over
\* the screen-local coordinates (0 .. width - 1)
map_to_hid_fullExtent(screen, x, y, hid_range) ==
    LET rel_x == x - screen.x
        rel_y == y - screen.y
    IN  Position(scale_axis(rel_x, 0, Max(1, screen.width), hid_range.min_x, hid_range.max_x),
                 scale_axis(rel_y, 0, Max(1, screen.height), hid_range.min_y, hid_range.max_y))

\* ScreenLayout.map_to_hid
map_to_hid(screen, x, y, hid_range) ==
    LET rel_x == x - screen.x
        rel_y == y - screen.y
    IN  Position(scale_axis(rel_x, 0, Max(1, screen.width - 1), hid_range.min_x, hid_range.max_x),
                 scale_axis(rel_y, 0, Max(1, screen.height - 1), hid_range.min_y, hid_range.max_y))

\* SynergyTranslator._normalize_position
normalize_position(last, event) ==
    IF event.absolute \/ last = None THEN Position(event.x, event.y)
    ELSE Position(last.x + event.x, last.y + event.y)

\* SynergyTranslator._calculate_relative_delta
calculate_relative_delta(last, x, y) ==
    IF last = None THEN Position(0, 0) ELSE Position(x - last.x, y - last.y)

\* SynergyTranslator._find_screen: the first configured screen containing the point
RECURSIVE find_screen(_, _, _)
find_screen(screens, x, y) ==
    IF Len(screens) = 0 THEN None
    ELSE IF contains(screens[1], x, y) THEN screens[1]
    ELSE find_screen(Tail(screens), x, y)

\* the transition test announcing the entered screen on every move
transition_events_alwaysEnter(cur, screen) ==
    (IF cur # None /\ screen # cur THEN <<ScreenTransitionEvent(cur.name, FALSE)>> ELSE <<>>)
    \o <<ScreenTransitionEvent(screen.name, TRUE)>>

\* the transition test forgetting the leave event
transition_events_noLeave(cur, screen) ==
    IF screen # cur THEN <<ScreenTransitionEvent(screen.name, TRUE)>> ELSE <<>>

\* translate_mouse_move, the screen transition: the events announcing a change of
\* screen from cur (None if there was none) to screen
transition_events(cur, screen) ==
    IF screen # cur
    THEN (IF cur # None THEN <<ScreenTransitionEvent(cur.name, FALSE)>> ELSE <<>>)
         \o <<ScreenTransitionEvent(screen.name, TRUE)>>
    ELSE <<>>

\* translate_mouse_move storing the position of a move that is in no screen
translate_mouse_move_storingDropped(cfg, absolute_out, cur, last, event) ==
    LET p      == normalize_position(last, event)
        screen == find_screen(cfg.screens, p.x, p.y)
        edges  == transition_events(cur, screen)
        hid    == map_to_hid(screen, p.x, p.y, cfg.hid_range)
        delta  == calculate_relative_delta(last, p.x, p.y)
        report == IF absolute_out THEN HidPointerEvent(hid.x, hid.y, TRUE)
                  ELSE HidPointerEvent(delta.x, delta.y, FALSE)
    IN  IF screen = None
        THEN [events |-> <<>>, current_screen |-> cur, last_position |-> p]
        ELSE [events |-> Append(edges, report), current_screen |-> screen, last_position |-> p]

\* SynergyTranslator.translate_mouse_move: the events returned and the state left
translate_mouse_move(cfg, absolute_out, cur, last, event) ==
    LET p      == normalize_position(last, event)
        screen == find_screen(cfg.screens, p.x, p.y)
        edges  == transition_events(cur, screen)
        hid    == map_to_hid(screen, p.x, p.y, cfg.hid_range)
        delta  == calculate_relative_delta(last, p.x, p.y)
        report == IF absolute_out THEN HidPointerEvent(hid.x, hid.y, TRUE)
                  ELSE HidPointerEvent(delta.x, delta.y, FALSE)
    IN  IF screen = None
        THEN [events |-> <<>>, current_screen |-> cur, last_position |-> last]
        ELSE [events |-> Append(edges, report), current_screen |-> screen, last_position |-> p]

\* translate forgetting the current screen when a ScreenEdge event of the parser
\* says that a screen was left
translate_edgeClearsScreen(cfg, absolute_out, cur, last, event) ==
    IF event.type = "MouseMoveEvent" THEN translate_mouse_move(cfg, absolute_out, cur, last, event)
    ELSE [events |-> <<event>>,
          current_screen |-> IF event.type = "ScreenTransitionEvent" /\ ~event.entered
                             THEN None ELSE cur,
          last_position |-> last]

\* SynergyTranslator.translate
translate(cfg, absolute_out, cur, last, event) ==
    IF event.type = "MouseMoveEvent" THEN translate_mouse_move(cfg, absolute_out, cur, last, event)
    ELSE [events |-> <<event>>, current_screen |-> cur, last_position |-> last]

-----------------------------------------------------------------------------
(* The translator given events one by one *)

\* screen names, as text: "primary", "left", "right", "dot"
NamePrimary == <<112, 114, 105, 109, 97, 114, 121>>
NameLeft    == <<108, 101, 102, 116>>
NameRight   == <<114, 105, 103, 104, 116>>
NameDot     == <<100, 111, 116>>

Grid == {Position(x, y) : x \in -1..GridW, y \in -1..GridH}

\* a layout with the pointer positions and the relative steps tried on it
Scenarios ==
    { \* one full-HD screen, default range
      [config |-> ScreenLayoutConfig(<<ScreenLayout(NamePrimary, 0, 0, 1920, 1080)>>, DefaultRange),
       points |-> {Position(1024, 768), Position(0, 0), Position(1919, 1079),
                   Position(1920, 0), Position(0, -1)},
       deltas |-> {Position(895, 311), Position(-1024, -768)}],
      \* two screens side by side, not touching the origin row alike, a custom range
      [config |-> ScreenLayoutConfig(<<ScreenLayout(NameLeft, 0, 0, 4, 3),
                                       ScreenLayout(NameRight, 4, 1, 3, 2)>>,
                                     AbsoluteCoordinateRange(10, 20, 110, 50)),
       points |-> Grid,
       deltas |-> {Position(1, 0), Position(-1, 0), Position(0, 1), Position(3, -1)}],
      \* two overlapping screens and a single-pixel one, default range
      [config |-> ScreenLayoutConfig(<<ScreenLayout(NameLeft, 0, 0, 3, 3),
                                       ScreenLayout(NameRight, 2, 0, 3, 2),
                                       ScreenLayout(NameDot, 6, 0, 1, 1)>>, DefaultRange),
       points |-> Grid,
       deltas |-> {Position(2, 0), Position(-1, 1)}],
      \* a one-row screen and a wider one, a range from below zero on one axis and
      \* of a single value on the other
      [config |-> ScreenLayoutConfig(<<ScreenLayout(NameLeft, 1, 1, 2, 1),
                                       ScreenLayout(NameRight, 3, 0, 5, 2)>>,
                                     AbsoluteCoordinateRange(-5, 7, 6, 7)),
       points |-> Grid,
       deltas |-> {Position(1, 0), Position(-2, 1)}] }

\* the events the translator is given
TranslatorEvents ==
    {MouseMoveEvent(p.x, p.y, TRUE) : p \in inputs.points}
    \cup {MouseMoveEvent(p.x, p.y, FALSE) : p \in inputs.deltas}
    \cup {MouseButtonEvent(1, TRUE), KeyEvent(4, 2, FALSE),
          ScreenTransitionEvent(NameRight, TRUE), ScreenTransitionEvent(NameLeft, FALSE)}

\* SynergyTranslator.__init__ with a non-empty screen list
TranslatorInit ==
    /\ \E sc \in Scenarios :
        /\ config = sc.config
        /\ inputs = [points |-> sc.points, deltas |-> sc.deltas]
    /\ use_absolute \in BOOLEAN
    /\ current_screen = None
    /\ last_position = None
    /\ lastCall = None

\* one call translator.translate(event)
Translate(event) ==
    LET r == translate(config, use_absolute, current_screen, last_position, event) IN
    /\ current_screen' = r.current_screen
    /\ last_position' = r.last_position
    /\ lastCall' = [type |-> "translate", event |-> event, screen |-> current_screen,
                    position |-> last_position, out |-> r.events]
    /\ UNCHANGED <<config, use_absolute, inputs, parserVars, codecVars, bridgeVars>>

-----------------------------------------------------------------------------
(* hid_gadget.py: the report codec *)

KEYBOARD_REPORT_ID == 1
MOUSE_REPORT_ID == 2
ABSOLUTE_MOUSE_REPORT_ID == 3

\* a bytes object
Bytes(data) == [type |-> "bytes", data |-> data]

\* int.to_bytes out of range
OverflowError == [type |-> "OverflowError"]

\* bytes(list) succeeds: every element is in range(0, 256)
AllBytes(list) == \A i \in 1..Len(list) : list[i] >= 0 /\ list[i] <= 255

\* _clamp
clamp(value, minimum, maximum) == Max(minimum, Min(maximum, value))

\* _to_signed_byte clamping to the whole range of a signed byte
to_signed_byte_from128(value) == clamp(value, -128, 127) % 256

\* _to_signed_byte: the clamped value & 0xFF, its two's-complement byte
to_signed_byte(value) == clamp(value, -127, 127) % 256

\* build_keyboard_report leaving the report unpadded
build_keyboard_report_unpadded(modifiers, keys) ==
    IF Len(keys) > 6 \/ ~AllBytes(keys) THEN ValueError
    ELSE Bytes(<<KEYBOARD_REPORT_ID, modifiers % 256, 0>> \o keys)

\* build_keyboard_report keeping the first six keys of a longer list
build_keyboard_report_truncating(modifiers, keys) ==
    LET padded == [i \in 1..6 |-> IF i <= Len(keys) THEN keys[i] ELSE 0]
    IN  IF AllBytes(padded)
        THEN Bytes(<<KEYBOARD_REPORT_ID, modifiers % 256, 0>> \o padded)
        ELSE ValueError

\* build_keyboard_report: the report, or ValueError for more than six keys or for a
\* key that is no byte
build_keyboard_report(modifiers, keys) ==
    IF Len(keys) > 6 THEN ValueError
    ELSE LET padded == keys \o [i \in 1..(6 - Len(keys)) |-> 0]
         IN  IF AllBytes(padded)
             THEN Bytes(<<KEYBOARD_REPORT_ID, modifiers % 256, 0>> \o padded)
             ELSE ValueError

\* build_mouse_report
build_mouse_report(buttons, x, y, wheel) ==
    Bytes(<<MOUSE_REPORT_ID, buttons % 256, to_signed_byte(x), to_signed_byte(y), to_signed_byte(wheel)>>)

\* n.to_bytes(2, "little") for 0 <= n < 65536
ToBytesLE2(n) == <<n % 256, n \div 256>>

\* build_absolute_mouse_report clamping to the default maximum whatever is configured
build_absolute_mouse_report_defaultMax(buttons, x, y, max_x, max_y) ==
    Bytes(<<ABSOLUTE_MOUSE_REPORT_ID, buttons % 256>> \o ToBytesLE2(clamp(x, 0, 32767))
              \o ToBytesLE2(clamp(y, 0, 32767)))

\* build_absolute_mouse_report: the report, or OverflowError when a clamped
\* coordinate does not fit 16 bits
build_absolute_mouse_report(buttons, x, y, max_x, max_y) ==
    LET clamped_x == clamp(x, 0, max_x)
        clamped_y == clamp(y, 0, max_y)
    IN  IF clamped_x > 65535 \/ clamped_y > 65535 THEN OverflowError
        ELSE Bytes(<<ABSOLUTE_MOUSE_REPORT_ID, buttons % 256>> \o ToBytesLE2(clamped_x) \o ToBytesLE2(clamped_y))

-----------------------------------------------------------------------------
(* The codec called directly *)

\* the key lists given to build_keyboard_report
KeyLists == SeqsUpTo({4, 231}, MaxKeyList) \cup {<<256>>, <<4, -1>>, <<0, 255, 5>>}

ModifierInputs == {0, 2, 255, 258}
ButtonInputs == {0, 1, 2, 7, 257}
DeltaInputs == {-200, -128, -127, -1, 0, 1, 127, 128, 200}
AbsoluteInputs == {-5, 0, 1, 255, 256, 20000, 30000, 32767, 40000, 65535, 70000}
MaxInputs == {-1, 0, 20000, 30000, 32767, 65535, 70000}

\* a call not made yet
Pending == [type |-> "pending"]

\* the calls made, each with the arguments it is given
CodecCalls ==
    {[fn |-> "build_keyboard_report", modifiers |-> modifiers, keys |-> keys, result |-> Pending] :
        modifiers \in ModifierInputs, keys \in KeyLists}
    \cup {[fn |-> "build_mouse_report", buttons |-> buttons, x |-> x, y |-> y, wheel |-> wheel,
           result |-> Pending] : buttons \in ButtonInputs, x \in DeltaInputs, y \in DeltaInputs,
                                 wheel \in DeltaInputs}
    \cup {[fn |-> "build_absolute_mouse_report", buttons |-> buttons, x |-> x, y |-> y,
           max_x |-> max_x, max_y |-> max_y, result |-> Pending] :
            buttons \in ButtonInputs, x \in AbsoluteInputs, y \in AbsoluteInputs,
            max_x \in MaxInputs, max_y \in MaxInputs}

\* no codec call is made
NoCodec == built = None

CodecInit == built \in CodecCalls

BuildKeyboard ==
    /\ built.fn = "build_keyboard_report" /\ built.result = Pending
    /\ built' = [built EXCEPT !.result = build_keyboard_report(built.modifiers, built.keys)]
    /\ UNCHANGED <<parserVars, translatorVars, bridgeVars>>

BuildMouse ==
    /\ built.fn = "build_mouse_report" /\ built.result = Pending
    /\ built' = [built EXCEPT !.result = build_mouse_report(built.buttons, built.x, built.y, built.wheel)]
    /\ UNCHANGED <<parserVars, translatorVars, bridgeVars>>

BuildAbsoluteMouse ==
    /\ built.fn = "build_absolute_mouse_report" /\ built.result = Pending
    /\ built' = [built EXCEPT !.result =
                    build_absolute_mouse_report(built.buttons, built.x, built.y, built.max_x, built.max_y)]
    /\ UNCHANGED <<parserVars, translatorVars, bridgeVars>>

-----------------------------------------------------------------------------
(* hid_gadget.py: HidGadget.  A write is the pair of the device path and the  *)
(* report written to it; opening and writing the device is taken to succeed.  *)

\* HidMouseConfig(absolute_enabled=...): the maxima keep their default 0x7FFF
HidMouseConfig(absolute_enabled) ==
    [absolute_enabled |-> absolute_enabled, absolute_max_x |-> 32767, absolute_max_y |-> 32767]

\* HidGadget.write_keyboard: the write made, or the exception of the codec
write_keyboard(modifiers, keys) ==
    LET report == build_keyboard_report(modifiers, keys)
    IN  IF report.type = "bytes" THEN [type |-> "write", path |-> "keyboard", report |-> report.data]
        ELSE report

\* HidGadget.write_mouse choosing the absolute device whenever the call is absolute
write_mouse_ignoringConfig(mouse_config, buttons, x, y, wheel, absolute) ==
    LET report  == IF absolute
                   THEN build_absolute_mouse_report(buttons, x, y, mouse_config.absolute_max_x,
                                                    mouse_config.absolute_max_y)
                   ELSE build_mouse_report(buttons, x, y, wheel)
    IN  IF report.type = "bytes"
        THEN [type |-> "write", path |-> IF absolute THEN "absolute_mouse" ELSE "mouse",
              report |-> report.data]
        ELSE report

\* HidGadget.write_mouse: the write made, or the exception of the codec
write_mouse(mouse_config, buttons, x, y, wheel, absolute) ==
    LET use_abs == absolute /\ mouse_config.absolute_enabled
        report  == IF use_abs
                   THEN build_absolute_mouse_report(buttons, x, y, mouse_config.absolute_max_x,
                                                    mouse_config.absolute_max_y)
                   ELSE build_mouse_report(buttons, x, y, wheel)
    IN  IF report.type = "bytes"
        THEN [type |-> "write", path |-> IF use_abs THEN "absolute_mouse" ELSE "mouse",
              report |-> report.data]
        ELSE report

\* HidGadget._write_report: the report is appended to the device of the path
write_report(sinks, write) == [sinks EXCEPT ![write.path] = Append(@, write.report)]

\* the three devices with nothing written, and with a report written to each
EmptySinks == [keyboard |-> <<>>, mouse |-> <<>>, absolute_mouse |-> <<>>]
UsedSinks ==
    [keyboard |-> <<<<KEYBOARD_REPORT_ID, 0, 0, 4, 0, 0, 0, 0, 0>>>>,
     mouse |-> <<<<MOUSE_REPORT_ID, 0, 1, 1, 0>>>>,
     absolute_mouse |-> <<<<ABSOLUTE_MOUSE_REPORT_ID, 0, 1, 0, 1, 0>>>>]

\* the calls gadget.write_mouse(...) made, each with the gadget's configuration and
\* the contents of the devices before it
GadgetCalls ==
    {[fn |-> "write_mouse", absolute_enabled |-> absolute_enabled, absolute |-> absolute,
      buttons |-> buttons, x |-> x, y |-> y, wheel |-> wheel, sinks |-> sinks, result |-> Pending] :
        absolute_enabled \in BOOLEAN, absolute \in BOOLEAN, buttons \in {0, 1},
        x \in {-5, 10, 120, 40000}, y \in {-5, 240}, wheel \in {0, 1},
        sinks \in {EmptySinks, UsedSinks}}

\* a gadget call about to be made
GadgetInit == built \in GadgetCalls

\* one call gadget.write_mouse(...): the devices after it, or the exception
WriteMouse ==
    /\ built.fn = "write_mouse" /\ built.result = Pending
    /\ LET write == write_mouse(HidMouseConfig(built.absolute_enabled), built.buttons, built.x,
                                built.y, built.wheel, built.absolute)
       IN  built' = [built EXCEPT !.result = IF write.type = "write"
                                             THEN [type |-> "sinks", sinks |-> write_report(built.sinks, write)]
                                             ELSE write]
    /\ UNCHANGED <<parserVars, translatorVars, bridgeVars>>

-----------------------------------------------------------------------------
(* cli.py *)

\* time.time(): some time, which one does not matter
Now == [type |-> "time"]

\* RuntimeState()
RuntimeState ==
    [buttons |-> 0, pressed_keys |-> {}, last_absolute |-> None, event_count |-> 0,
     last_event_time |-> None]

\* sorted(keys)
RECURSIVE Sorted(_)
Sorted(S) ==
    IF S = {} THEN <<>>
    ELSE LET least == CHOOSE k \in S : \A j \in S : k <= j
         IN  <<least>> \o Sorted(S \ {least})

\* update_pressed_keys: the key set it leaves and the list it returns
update_pressed_keys(keys, event) ==
    LET after == IF event.pressed THEN keys \cup {event.keycode} ELSE keys \ {event.keycode}
    IN  [keys |-> after, key_list |-> Sorted(after)]

\* buttons has the bit mask (a power of two) set
HasBit(buttons, mask) == (buttons \div mask) % 2 = 1

\* apply_mouse_button with the masks of buttons 2 and 3 exchanged
apply_mouse_button_swapped(buttons, event) ==
    LET mask == IF event.button = 1 THEN 1
                ELSE IF event.button = 2 THEN 4
                ELSE IF event.button = 3 THEN 2
                ELSE 0
    IN  IF mask = 0 THEN buttons
        ELSE IF event.pressed THEN (IF HasBit(buttons, mask) THEN buttons ELSE buttons + mask)
        ELSE (IF HasBit(buttons, mask) THEN buttons - mask ELSE buttons)

\* apply_mouse_button: the button mask it leaves
apply_mouse_button(buttons, event) ==
    LET mask == IF event.button = 1 THEN 1
                ELSE IF event.button = 2 THEN 2
                ELSE IF event.button = 3 THEN 4
                ELSE 0
    IN  IF mask = 0 THEN buttons
        ELSE IF event.pressed THEN (IF HasBit(buttons, mask) THEN buttons ELSE buttons + mask)
        ELSE (IF HasBit(buttons, mask) THEN buttons - mask ELSE buttons)

\* log_health: the message logged
log_health(st, connected) ==
    [connected |-> connected, events |-> st.event_count,
     last_event |-> IF st.last_event_time = None THEN "never" ELSE "ago"]

\* key_list[:6]
FirstSix(key_list) == SubSeq(key_list, 1, Min(6, Len(key_list)))

\* run_bridge, the body of `for output in translator.translate(event)` for one output:
\* the RuntimeState it leaves, the write it makes (None for none), or the exception
\* raised by the write
handle_output(relative, st, output) ==
    IF output.type = "HidPointerEvent" THEN
        LET st1 == IF output.absolute
                   THEN [st EXCEPT !.last_absolute = Position(output.x, output.y)] ELSE st
        IN  [state |-> st1,
             write |-> write_mouse(HidMouseConfig(~relative), st1.buttons, output.x, output.y, 0,
                                   output.absolute)]
    ELSE IF output.type = "MouseButtonEvent" THEN
        LET st1 == [st EXCEPT !.buttons = apply_mouse_button(st.buttons, output)]
            at  == IF ~relative /\ st1.last_absolute # None THEN st1.last_absolute ELSE Position(0, 0)
        IN  [state |-> st1,
             write |-> write_mouse(HidMouseConfig(~relative), st1.buttons, at.x, at.y, 0, ~relative)]
    ELSE IF output.type = "KeyEvent" THEN
        LET u        == update_pressed_keys(st.pressed_keys, output)
            key_list == IF Len(u.key_list) > 6 THEN FirstSix(u.key_list) ELSE u.key_list
        IN  [state |-> [st EXCEPT !.pressed_keys = u.keys],
             write |-> write_keyboard(output.modifiers, key_list)]
    ELSE [state |-> st, write |-> None]

\* the whole `for output in ...` loop: the RuntimeState left, the writes made, and
\* the exception that ended it (None if it ran to its end)
RECURSIVE handle_outputs(_, _, _, _)
handle_outputs(relative, st, outputs, written) ==
    IF Len(outputs) = 0 THEN [state |-> st, written |-> written, error |-> None]
    ELSE LET h == handle_output(relative, st, outputs[1]) IN
        IF h.write = None THEN handle_outputs(relative, h.state, Tail(outputs), written)
        ELSE IF h.write.type = "write"
        THEN handle_outputs(relative, h.state, Tail(outputs), Append(written, h.write))
        ELSE [state |-> h.state, written |-> written,
              error |-> [type |-> h.write.type, from |-> "write"]]

-----------------------------------------------------------------------------
(* run_bridge as a process: one action per step of its loop *)

\* the layout of the sessions: two screens side by side
BridgeLayout ==
    ScreenLayoutConfig(<<ScreenLayout(NameLeft, 0, 0, 4, 3), ScreenLayout(NameRight, 4, 0, 3, 3)>>,
                       DefaultRange)

\* a layout file without screens
EmptyLayout == ScreenLayoutConfig(<<>>, DefaultRange)

\* a layout file whose hid range has absolute_max_x below absolute_min_x
DegenerateLayout ==
    ScreenLayoutConfig(<<ScreenLayout(NameLeft, 0, 0, 4, 3)>>, AbsoluteCoordinateRange(100, 0, 50, 32767))

\* the messages of a general session
BridgeMessages ==
    { Msg(<<Tag("DMMV"), Num(1), Num(2)>>, SP),
      Msg(<<Tag("DMMV"), Num(5), Num(1)>>, SP),
      Msg(<<Tag("DMMB"), Num(1), Num(1)>>, SP),
      Msg(<<Tag("DKDN"), Num(4), Num(2)>>, SP),
      Msg(<<Tag("DMMV"), Lit(<<120>>), Num(1)>>, SP) }

\* the messages of a session of key presses: seven keys, a release, a key code that
\* is no byte
KeyMessages ==
    {Msg(<<Tag("DKDN"), Num(k), Num(0)>>, SP) : k \in {4, 5, 6, 7, 8, 9, 10, 256}}
    \cup {Msg(<<Tag("DKUP"), Num(4), Num(0)>>, SP)}

\* the messages of a session that is about its start and end: a move and a key press
SessionMessages ==
    { Msg(<<Tag("DMMV"), Num(1), Num(2)>>, SP),
      Msg(<<Tag("DKDN"), Num(4), Num(0)>>, SP) }

\* the messages of a session of button changes: buttons 1, 2, 3 and a button the
\* mapping does not know, pressed and released
ButtonMessages ==
    {Msg(<<Tag("DMMB"), Num(b), Num(f)>>, SP) : b \in {1, 2, 3, 4}, f \in {0, 1}}

\* the state when run_bridge is entered: nothing is connected, the parser of the
\* client is fresh, the server is about to send n messages of msgs
BridgeInit(argsSet, msgs, n, bursts, cuts) ==
    /\ args \in argsSet
    /\ session = "Disconnected" /\ outcome = "running" /\ error = None
    /\ socketOpen = FALSE /\ next_health = FALSE
    /\ state = RuntimeState
    /\ pending = <<>> /\ healthLog = None /\ step = None
    /\ env = [messages |-> msgs, bursts |-> bursts, cuts |-> cuts]
    /\ budget = n /\ wire = <<>> /\ peerClosed = FALSE
    /\ frames = <<>> /\ stream = <<>> /\ fed = 0 /\ buffer = <<>> /\ returned = <<>>
    /\ feedStatus = "ok" /\ midFrame = FALSE
    /\ config = None /\ use_absolute = TRUE /\ current_screen = None /\ last_position = None
    /\ inputs = None /\ lastCall = None
    /\ NoCodec

Running == session = "Streaming" /\ outcome = "running"

\* a finally block that leaves the socket of the client open
Finally_socketLeftOpen(st, how, exc) ==
    /\ session' = "Closed"
    /\ UNCHANGED socketOpen
    /\ outcome' = how
    /\ error' = exc
    /\ healthLog' = IF next_health THEN log_health(st, FALSE) ELSE healthLog

\* run_bridge's finally block: client.close(), and the final log_health when
\* next_health is not None
Finally(st, how, exc) ==
    /\ session' = "Closed"
    /\ socketOpen' = FALSE
    /\ outcome' = how
    /\ error' = exc
    /\ healthLog' = IF next_health THEN log_health(st, FALSE) ELSE healthLog

\* run_bridge up to its loop: the layout is loaded, the translator is made (ValueError
\* for a layout without screens), the client connects (SystemExit(1) on OSError)
Connect(connected) ==
    /\ session = "Disconnected" /\ outcome = "running"
    /\ IF Len(args.layout.screens) = 0
       THEN /\ outcome' = "raised"
            /\ error' = [type |-> "ValueError", from |-> "SynergyTranslator"]
            /\ UNCHANGED <<session, socketOpen, next_health, config, use_absolute>>
       ELSE /\ config' = args.layout
            /\ use_absolute' = ~args.relative
            /\ IF connected
               THEN /\ session' = "Streaming" /\ socketOpen' = TRUE
                    /\ next_health' = args.health
                    /\ UNCHANGED <<outcome, error>>
               ELSE /\ outcome' = "SystemExit"
                    /\ error' = [type |-> "SystemExit", from |-> "connect"]
                    /\ UNCHANGED <<session, socketOpen, next_health>>
    /\ UNCHANGED <<args, state, pending, healthLog, step, env, budget, wire, peerClosed>>
    /\ UNCHANGED <<parserVars, current_screen, last_position, inputs, lastCall, codecVars>>

\* the server sends a burst of messages
Send(burst) ==
    /\ Running /\ ~peerClosed /\ wire = <<>>
    /\ Len(burst) > 0 /\ Len(burst) <= budget
    /\ wire' = EncodeStream(burst)
    /\ budget' = budget - Len(burst)
    /\ UNCHANGED <<args, session, outcome, error, socketOpen, next_health, state, pending,
                   healthLog, step, env, peerClosed>>
    /\ UNCHANGED <<parserVars, translatorVars, codecVars>>

\* the server closes the connection
PeerClose ==
    /\ Running /\ ~peerClosed
    /\ peerClosed' = TRUE
    /\ UNCHANGED <<args, session, outcome, error, socketOpen, next_health, state, pending,
                   healthLog, step, env, budget, wire>>
    /\ UNCHANGED <<parserVars, translatorVars, codecVars>>

\* iter_events: recv returns the first n bytes in flight and they are fed to the
\* parser; an exception of feed leaves iter_events and run_bridge (it is no
\* KeyboardInterrupt and no socket.error), through the finally block
Recv(n) ==
    /\ Running /\ pending = <<>>
    /\ n >= 1 /\ n <= Len(wire) /\ (n = Len(wire) \/ n \in env.cuts)
    /\ LET r == feed(buffer, SubSeq(wire, 1, n)) IN
        /\ buffer' = r.buffer
        /\ wire' = SubSeq(wire, n + 1, Len(wire))
        /\ IF r.raised
           THEN /\ Finally(state, "raised", [type |-> "ValueError", from |-> "feed"])
                /\ UNCHANGED pending
           ELSE /\ pending' = r.events
                /\ UNCHANGED <<session, outcome, error, socketOpen, healthLog>>
    /\ UNCHANGED <<args, next_health, state, step, env, budget, peerClosed>>
    /\ UNCHANGED <<frames, stream, fed, returned, feedStatus, midFrame, translatorVars, codecVars>>

\* iter_events: recv returns no data, the loop ends and run_bridge returns
RecvEnd ==
    /\ Running /\ pending = <<>> /\ wire = <<>> /\ peerClosed
    /\ Finally(state, "returned", None)
    /\ UNCHANGED <<args, next_health, state, pending, step, env, budget, wire, peerClosed>>
    /\ UNCHANGED <<parserVars, translatorVars, codecVars>>

\* a socket.error of recv that ends the loop like the end of the stream
RecvError_swallowed ==
    /\ Running /\ pending = <<>>
    /\ Finally(state, "returned", None)
    /\ UNCHANGED <<args, next_health, state, pending, step, env, budget, wire, peerClosed>>
    /\ UNCHANGED <<parserVars, translatorVars, codecVars>>

\* iter_events: recv raises socket.error, run_bridge exits with status 1
RecvError ==
    /\ Running /\ pending = <<>>
    /\ Finally(state, "SystemExit", [type |-> "SystemExit", from |-> "recv"])
    /\ UNCHANGED <<args, next_health, state, pending, step, env, budget, wire, peerClosed>>
    /\ UNCHANGED <<parserVars, translatorVars, codecVars>>

\* the body of run_bridge's loop for the next event iter_events yields; due tells
\* whether the health interval has passed at its end
HandleEvent(due) ==
    /\ Running /\ pending # <<>>
    /\ LET event == Head(pending)
           st0   == [state EXCEPT !.event_count = @ + 1, !.last_event_time = Now]
           t     == translate(config, use_absolute, current_screen, last_position, event)
           h     == handle_outputs(args.relative, st0, t.events, <<>>)
       IN  /\ current_screen' = t.current_screen
           /\ last_position' = t.last_position
           /\ lastCall' = [type |-> "translate", event |-> event, screen |-> current_screen,
                           position |-> last_position, out |-> t.events]
           /\ state' = h.state
           /\ step' = [event |-> event, written |-> h.written]
           /\ IF h.error # None
              THEN /\ Finally(h.state, "raised", h.error)
                   /\ pending' = <<>>
              ELSE /\ pending' = Tail(pending)
                   /\ healthLog' = IF next_health /\ due THEN log_health(h.state, TRUE) ELSE healthLog
                   /\ UNCHANGED <<session, outcome, error, socketOpen>>
    /\ UNCHANGED <<args, next_health, env, budget, wire, peerClosed>>
    /\ UNCHANGED <<parserVars, config, use_absolute, inputs, codecVars>>

\* KeyboardInterrupt while the loop runs: run_bridge logs it and returns
Interrupt ==
    /\ Running
    /\ Finally(state, "interrupted", None)
    /\ pending' = <<>>
    /\ UNCHANGED <<args, next_health, state, step, env, budget, wire, peerClosed>>
    /\ UNCHANGED <<parserVars, translatorVars, codecVars>>

BridgeNext ==
    \/ \E connected \in BOOLEAN : Connect(connected)
    \/ \E burst \in SeqsUpTo(env.messages, env.bursts) : Send(burst)
    \/ PeerClose
    \/ \E n \in 1..Len(wire) : Recv(n)
    \/ RecvEnd
    \/ RecvError
    \/ \E due \in BOOLEAN : HandleEvent(due)
    \/ Interrupt

\* a general session: bursts of messages, reads of everything in flight or of MaxCut bytes
SpecBridge ==
    BridgeInit([relative : BOOLEAN, health : BOOLEAN, layout : {BridgeLayout, EmptyLayout}],
               BridgeMessages, MaxSent, MaxBurst, {MaxCut})
    /\ [][BridgeNext]_vars

\* a session of key messages, sent one at a time and received whole
SpecKeys ==
    BridgeInit([relative : {FALSE}, health : {FALSE}, layout : {BridgeLayout}],
               KeyMessages, MaxKeysSent, 1, {})
    /\ [][BridgeNext]_vars

\* a session with every kind of configuration, whose messages are sent one at a
\* time and received whole
SpecSession ==
    BridgeInit([relative : BOOLEAN, health : BOOLEAN,
                layout : {BridgeLayout, EmptyLayout, DegenerateLayout}],
               SessionMessages, MaxSessionSent, 1, {})
    /\ [][BridgeNext]_vars

\* a session of button messages, sent one at a time and received whole, with
\* absolute or relative output
SpecButtons ==
    BridgeInit([relative : BOOLEAN, health : {FALSE}, layout : {BridgeLayout}],
               ButtonMessages, MaxButtonsSent, 1, {})
    /\ [][BridgeNext]_vars

-----
(* The parser fed a stream in chunks *)

\* the messages of a stream fed in arbitrary chunks
ChunkMessages ==
    { Msg(<<Tag("DMMV"), Num(10), Num(2)>>, SP),
      Msg(<<Tag("DKDN"), Num(30), Num(2)>>, <<9, 32>>),
      Msg(<<Tag("CINN"), Lit(<<97>>)>>, SP),
      Msg(<<Tag("XXXX"), Num(1), Num(2)>>, SP),
      Msg(<<>>, SP),
      Msg(<<Tag("DMMV"), Lit(<<120>>), Num(1)>>, SP),
      Msg(<<Tag("DKDN"), Num(4), Lit(<<255>>)>>, SP) }

\* the messages of a stream fed frame by frame
ParserMessages ==
    ChunkMessages \cup
    { Msg(<<Tag("DMMV"), Num(-5), Num(3)>>, SP),
      Msg(<<Tag("DMMB"), Num(1), Num(1)>>, SP),
      Msg(<<Tag("DMMB"), Num(2), Num(0)>>, SP),
      Msg(<<Tag("DMMB"), Num(3), Lit(<<48, 49>>)>>, SP),
      Msg(<<Tag("DKUP"), Num(30), Num(2)>>, SP),
      Msg(<<Tag("COUT"), Lit(<<98>>)>>, SP),
      Msg(<<Tag("DMMV"), Num(7)>>, SP),
      Msg(<<Tag("CINN"), Lit(<<97>>), Lit(<<98>>)>>, SP),
      Msg(<<Lit(<<32, 10>>)>>, SP) }

\* run_bridge is not running
NoBridge ==
    /\ args = None /\ session = "Disconnected" /\ outcome = "running" /\ error = None
    /\ socketOpen = FALSE /\ next_health = FALSE /\ state = RuntimeState /\ pending = <<>>
    /\ healthLog = None /\ step = None /\ env = None /\ budget = 0 /\ wire = <<>>
    /\ peerClosed = FALSE

\* no translator is in use
NoTranslator ==
    /\ config = None /\ use_absolute = TRUE /\ current_screen = None /\ last_position = None
    /\ inputs = None /\ lastCall = None

\* a fresh parser (__init__) and a stream of at most MaxFrames messages of msgs
ParserInit(msgs) ==
    /\ NoTranslator /\ NoCodec /\ NoBridge
    /\ frames \in SeqsUpTo(msgs, MaxFrames)
    /\ stream = EncodeStream(frames)
    /\ fed = 0
    /\ buffer = <<>>
    /\ returned = <<>>
    /\ feedStatus = "ok"
    /\ midFrame = FALSE

\* one call parser.feed(data), data the next n bytes of the stream
Feed(n) ==
    /\ fed + n <= Len(stream)
    /\ LET r == feed(buffer, SubSeq(stream, fed + 1, fed + n)) IN
        /\ buffer' = r.buffer
        /\ returned' = IF r.raised THEN returned ELSE returned \o r.events
        /\ feedStatus' = IF r.raised THEN "raised" ELSE feedStatus
        /\ midFrame' = (midFrame \/ (~r.raised /\ Len(r.buffer) > 0))
    /\ fed' = fed + n
    /\ UNCHANGED <<frames, stream, translatorVars, codecVars, bridgeVars>>

\* the number of whole frames among the first n bytes of the stream
RECURSIVE FramesWithin(_, _)
FramesWithin(ms, n) ==
    IF Len(ms) = 0 \/ Len(EncodeFrame(ms[1])) > n THEN 0
    ELSE 1 + FramesWithin(Tail(ms), n - Len(EncodeFrame(ms[1])))

FramesFed == FramesWithin(frames, fed)

\* the stream is fed in chunks of any size, the empty chunk included
ParserNext == \E n \in 0..Len(stream) : Feed(n)

SpecParser == ParserInit(ChunkMessages) /\ [][ParserNext]_vars

\* the stream is fed one or more whole frames at a time
DispatchNext ==
    \E k \in 1..MaxFrames :
        /\ FramesFed + k <= Len(frames)
        /\ Feed(Len(EncodeStream(SubSeq(frames, 1, FramesFed + k))) - fed)

SpecDispatch == ParserInit(ParserMessages) /\ [][DispatchNext]_vars

\* no parser is in use
NoParser ==
    /\ frames = <<>> /\ stream = <<>> /\ fed = 0 /\ buffer = <<>> /\ returned = <<>>
    /\ feedStatus = "ok" /\ midFrame = FALSE

TranslatorNext == \E event \in TranslatorEvents : Translate(event)

\* a fresh translator, and nothing else in use
InitTranslator == NoParser /\ TranslatorInit /\ NoCodec /\ NoBridge

SpecTranslator == InitTranslator /\ [][TranslatorNext]_vars

CodecNext ==
    \/ BuildKeyboard
    \/ BuildMouse
    \/ BuildAbsoluteMouse
    \/ WriteMouse

\* a codec call about to be made, and nothing else in use
InitCodec == NoParser /\ NoTranslator /\ (CodecInit \/ GadgetInit) /\ NoBridge

SpecCodec == InitCodec /\ [][CodecNext]_vars

-----------------------------------------------------------------------------
(* Properties of the parser *)

\* what the dispatch table of the protocol says a message is
IsInts(toks, positions) == \A i \in positions : toks[i].kind = "int"

Undecodable(m) ==
    \E i \in 1..Len(m.toks) : m.toks[i].kind = "word" /\ \E j \in 1..Len(m.toks[i].text) : m.toks[i].text[j] > 127

\* a recognized tag with the right number of arguments, one of which is no integer
BadNumeric(m) ==
    /\ Len(m.toks) = 3
    /\ \/ m.toks[1] \in {Tag("DMMV"), Tag("DKDN"), Tag("DKUP")} /\ ~IsInts(m.toks, {2, 3})
       \/ m.toks[1] = Tag("DMMB") /\ ~IsInts(m.toks, {2})

Malformed(m) == Undecodable(m) \/ BadNumeric(m)

\* a message of the dispatch table
WellFormed(m) ==
    \/ Len(m.toks) = 3 /\ m.toks[1] \in {Tag("DMMV"), Tag("DKDN"), Tag("DKUP")} /\ IsInts(m.toks, {2, 3})
    \/ Len(m.toks) = 3 /\ m.toks[1] = Tag("DMMB") /\ IsInts(m.toks, {2}) /\ ~Undecodable(m)
    \/ Len(m.toks) = 2 /\ m.toks[1] \in {Tag("CINN"), Tag("COUT")} /\ ~Undecodable(m)

\* the event the dispatch table gives for a message that is not Malformed
TableEvent(m) ==
    LET t == m.toks IN
    IF ~WellFormed(m) THEN None
    ELSE IF t[1] = Tag("DMMV") THEN MouseMoveEvent(t[2].val, t[3].val, TRUE)
    ELSE IF t[1] = Tag("DMMB") THEN MouseButtonEvent(t[2].val, TokenBytes(t[3]) = <<49>>)
    ELSE IF t[1] = Tag("DKDN") THEN KeyEvent(t[2].val, t[3].val, TRUE)
    ELSE IF t[1] = Tag("DKUP") THEN KeyEvent(t[2].val, t[3].val, FALSE)
    ELSE IF t[1] = Tag("CINN") THEN ScreenTransitionEvent(t[2].text, TRUE)
    ELSE ScreenTransitionEvent(t[2].text, FALSE)

RECURSIVE TableEvents(_)
TableEvents(ms) ==
    IF Len(ms) = 0 THEN <<>>
    ELSE (IF TableEvent(ms[1]) = None THEN <<>> ELSE <<TableEvent(ms[1])>>) \o TableEvents(Tail(ms))

AllFed == fed = Len(stream)

\* C1: when a stream of valid frames has been fed whole, in chunks of any sizes, the
\* events returned by the feed calls, concatenated, are the events one feed of the
\* whole stream to a fresh parser returns.
C1_SplitFeedsEqualWholeFeed ==
    (AllFed /\ \A i \in 1..Len(frames) : WellFormed(frames[i]))
        => /\ feedStatus = "ok"
           /\ ~feed(<<>>, stream).raised
           /\ returned = feed(<<>>, stream).events

\* C1 witness: two valid frames were fed whole, and some chunk ended inside a frame
C1_Witness ==
    /\ AllFed /\ Len(frames) = 2 /\ \A i \in 1..Len(frames) : WellFormed(frames[i])
    /\ midFrame /\ Len(returned) = 2

\* C2: no exception leaves feed, whatever the bytes: a frame with a recognized tag,
\* the right argument count and a token that is no integer, or a payload that is no
\* UTF-8 text, is dropped and feed returns normally.
C2_FeedNeverRaises == feedStatus = "ok"

\* C4: the events returned so far are the dispatch table's events for the frames
\* fed so far, in stream order; a frame with an unknown tag, a wrong argument count
\* or an empty payload gives no event and changes nothing for the frames after it.
C4_DispatchTable ==
    LET done == SubSeq(frames, 1, FramesFed) IN
    (\A i \in 1..Len(done) : ~Malformed(done[i]))
        => /\ feedStatus = "ok"
           /\ returned = TableEvents(done)
           /\ buffer = SubSeq(stream, Len(EncodeStream(done)) + 1, fed)

\* C4 witness: a dropped frame was followed by a button press, both consumed
C4_Witness ==
    /\ FramesFed = 2 /\ AllFed
    /\ TableEvent(frames[1]) = None /\ ~Malformed(frames[1])
    /\ returned = <<MouseButtonEvent(1, TRUE)>>
    /\ buffer = <<>>

-----------------------------------------------------------------------------
(* Properties of the translator *)

TranslatedMove == lastCall # None /\ lastCall.type = "translate" /\ lastCall.event.type = "MouseMoveEvent"

\* the point the last translated move normalizes to: an absolute move as it is, a
\* relative one added to the stored position
MovePoint ==
    IF lastCall.event.absolute \/ lastCall.position = None
    THEN Position(lastCall.event.x, lastCall.event.y)
    ELSE Position(lastCall.position.x + lastCall.event.x, lastCall.position.y + lastCall.event.y)

Inside(screen, p) ==
    /\ screen.x <= p.x /\ p.x <= screen.x + screen.width - 1
    /\ screen.y <= p.y /\ p.y <= screen.y + screen.height - 1

\* the screen a point is inside: the first one in configured order whose rectangle
\* holds it, None if there is none
ScreenOf(p) ==
    LET holding == {i \in 1..Len(config.screens) : Inside(config.screens[i], p)}
    IN  IF holding = {} THEN None
        ELSE config.screens[CHOOSE i \in holding : \A j \in holding : i <= j]

IsPointerReport(e) == e.type = "HidPointerEvent" /\ e.absolute = use_absolute

\* C5: a move from the current screen A to a point inside another screen B returns
\* exactly ScreenEdge(A, left), ScreenEdge(B, entered) and one pointer report, in
\* this order, and leaves B as the current screen.
C5_ScreenTransitionEmission ==
    (TranslatedMove /\ lastCall.screen # None /\ ScreenOf(MovePoint) \notin {None, lastCall.screen})
        => /\ Len(lastCall.out) = 3
           /\ lastCall.out[1] = ScreenTransitionEvent(lastCall.screen.name, FALSE)
           /\ lastCall.out[2] = ScreenTransitionEvent(ScreenOf(MovePoint).name, TRUE)
           /\ IsPointerReport(lastCall.out[3])
           /\ current_screen = ScreenOf(MovePoint)

\* C5 witness: a move took the pointer from the left screen to the right one
C5_Witness ==
    /\ TranslatedMove /\ lastCall.screen # None /\ lastCall.screen.name = NameLeft
    /\ current_screen.name = NameRight /\ Len(lastCall.out) = 3

\* C6: a move landing inside the screen that is already current returns exactly one
\* pointer report and no ScreenEdge event.
C6_SameScreenNoEdges ==
    (TranslatedMove /\ lastCall.screen # None /\ ScreenOf(MovePoint) = lastCall.screen)
        => /\ Len(lastCall.out) = 1
           /\ IsPointerReport(lastCall.out[1])
           /\ current_screen = lastCall.screen

\* C6 witness: a move inside the current screen, after an earlier move into it
C6_Witness ==
    /\ TranslatedMove /\ lastCall.screen # None /\ lastCall.position # None
    /\ ScreenOf(MovePoint) = lastCall.screen /\ last_position # lastCall.position
    /\ Len(lastCall.out) = 1

\* the event the parser returns for the frame "DMMV 1024 768"
ScenarioMove == feed(<<>>, EncodeFrame(Msg(<<Tag("DMMV"), Num(1024), Num(768)>>, SP))).events[1]

ScenarioConfig == ScreenLayoutConfig(<<ScreenLayout(NamePrimary, 0, 0, 1920, 1080)>>, DefaultRange)

\* C7: the first in-screen move of a translator with no current screen returns
\* exactly ScreenEdge(active, entered) and one pointer report, no leave event; for
\* DMMV 1024 768 on the 1920x1080 screen 'primary' at (0,0), default range, absolute
\* output, the report is (17485, 23323, absolute).
C7_FirstMoveEntersOnly ==
    (TranslatedMove /\ lastCall.screen = None /\ ScreenOf(MovePoint) # None)
        => /\ Len(lastCall.out) = 2
           /\ lastCall.out[1] = ScreenTransitionEvent(ScreenOf(MovePoint).name, TRUE)
           /\ IsPointerReport(lastCall.out[2])
           /\ (config = ScenarioConfig /\ use_absolute /\ lastCall.event = ScenarioMove)
                => lastCall.out = <<ScreenTransitionEvent(NamePrimary, TRUE),
                                    HidPointerEvent(17485, 23323, TRUE)>>

\* C7 witness: DMMV 1024 768 was the first move given to the scenario's translator
C7_Witness ==
    /\ TranslatedMove /\ lastCall.screen = None /\ lastCall.position = None
    /\ config = ScenarioConfig /\ use_absolute /\ lastCall.event = ScenarioMove
    /\ current_screen.name = NamePrimary /\ last_position = Position(1024, 768)

-----------------------------------------------------------------------------
(* Properties of the codec *)

Built(fn) == built # None /\ built.fn = fn /\ built.result.type = "bytes"

Called(fn) == built # None /\ built.fn = fn /\ built.result # Pending

\* the six key slots of a report for the keys given
KeySlots(keys) == [i \in 1..6 |-> IF i <= Len(keys) THEN keys[i] ELSE 0]

\* the report of the keyboard layout for the call made
KeyboardLayout == Bytes(<<KEYBOARD_REPORT_ID, built.modifiers % 256, 0>> \o KeySlots(built.keys))

\* C11, as claimed: build_keyboard_report raises the invalid-input error for more
\* than six keys, and for at most six keys returns the report ID, modifiers & 0xFF,
\* a zero byte and the keys in the given order, zero-padded to six slots.
C11_ClaimedKeyboardReport ==
    Called("build_keyboard_report")
        => IF Len(built.keys) > 6 THEN built.result = ValueError
           ELSE built.result = KeyboardLayout

\* C11, amended: build_keyboard_report raises ValueError for more than six keys and
\* never truncates; for at most six keys, each in 0..255, it returns the report ID,
\* modifiers & 0xFF, a zero byte and the keys in the given order, zero-padded to six
\* slots; for at most six keys one of which is outside 0..255 it raises ValueError.
C11_KeyboardReport ==
    Called("build_keyboard_report")
        => IF Len(built.keys) > 6 \/ \E i \in 1..Len(built.keys) : built.keys[i] \notin 0..255
           THEN built.result = ValueError
           ELSE built.result = KeyboardLayout

\* C11 witness: a call with seven keys raised
C11_Witness ==
    /\ Called("build_keyboard_report") /\ Len(built.keys) = 7
    /\ built.result = ValueError

\* a byte read as an 8-bit two's-complement number
DecodeSigned8(b) == IF b >= 128 THEN b - 256 ELSE b

\* v limited to lo..hi
Clamped(v, lo, hi) == IF v < lo THEN lo ELSE IF v > hi THEN hi ELSE v

\* C12: the bytes build_mouse_report stores for dx, dy and wheel, read as 8-bit
\* two's-complement numbers, are the arguments limited to -127..127; the byte 0x80
\* is never stored.
C12_RelativeDeltasClamped ==
    Called("build_mouse_report")
        => /\ built.result.type = "bytes"
           /\ LET data == built.result.data IN
               /\ Len(data) = 5
               /\ DecodeSigned8(data[3]) = Clamped(built.x, -127, 127)
               /\ DecodeSigned8(data[4]) = Clamped(built.y, -127, 127)
               /\ DecodeSigned8(data[5]) = Clamped(built.wheel, -127, 127)
               /\ \A i \in 3..5 : data[i] \in 0..255 /\ data[i] # 128

\* C12 witness: the deltas -128, 200 and -1 were stored as 0x81, 0x7F and 0xFF
C12_Witness ==
    /\ Called("build_mouse_report")
    /\ built.x = -128 /\ built.y = 200 /\ built.wheel = -1
    /\ SubSeq(built.result.data, 3, 5) = <<129, 127, 255>>

\* two bytes read as a little-endian 16-bit number
DecodeLE16(lo, hi) == lo + 256 * hi

\* the x and y fields of the absolute report built are x and y limited to 0..max
AbsoluteFieldsClamped ==
    /\ built.result.type = "bytes"
    /\ LET data == built.result.data IN
        /\ Len(data) = 6 /\ \A i \in 1..6 : data[i] \in 0..255
        /\ DecodeLE16(data[3], data[4]) = Clamped(built.x, 0, built.max_x)
        /\ DecodeLE16(data[5], data[6]) = Clamped(built.y, 0, built.max_y)

\* the call of the scenario: button 2, x 40000, y -5, maxima 30000 and 20000
AbsoluteScenarioCall ==
    /\ built.buttons = 2 /\ built.x = 40000 /\ built.y = -5
    /\ built.max_x = 30000 /\ built.max_y = 20000

\* C13, as claimed: for every x, y and configured maxima the x and y fields of the
\* report, read as little-endian 16-bit numbers, are x limited to 0..max_x and y
\* limited to 0..max_y.
C13_ClaimedAbsoluteClamp ==
    Called("build_absolute_mouse_report") => AbsoluteFieldsClamped

\* C13, amended: for every x and y and maxima within 0..65535 the x and y fields of
\* the report, read as little-endian 16-bit numbers, are x limited to 0..max_x and
\* y limited to 0..max_y; the scenario call gives [reportId, 2, 0x30, 0x75, 0, 0].
C13_AbsoluteClamp ==
    (Called("build_absolute_mouse_report") /\ built.max_x \in 0..65535 /\ built.max_y \in 0..65535)
        => /\ AbsoluteFieldsClamped
           /\ AbsoluteScenarioCall
                => built.result.data = <<ABSOLUTE_MOUSE_REPORT_ID, 2, 48, 117, 0, 0>>

\* C13 witness: the scenario call was made
C13_Witness ==
    /\ Called("build_absolute_mouse_report") /\ AbsoluteScenarioCall
    /\ built.result = Bytes(<<3, 2, 48, 117, 0, 0>>)

-----------------------------------------------------------------------------
(* Properties of the bridge loop *)

\* run_bridge was left by an exception raised at the given place
RaisedFrom(place) == outcome = "raised" /\ error # None /\ error.from = place

\* C3: a frame with a recognized tag whose arguments fail to parse never aborts the
\* session: no exception of the parser ends run_bridge, the session stays Streaming.
C3_MalformedFrameKeepsSession == ~RaisedFrom("feed")

\* the last step handled the press of a key and left n keys held
KeyPressLeft(n) ==
    /\ step # None /\ step.event.type = "KeyEvent" /\ step.event.pressed
    /\ Cardinality(state.pressed_keys) = n

\* the keyboard report of the first six of the keys held, in ascending order
SixKeyReport ==
    [type |-> "write", path |-> "keyboard",
     report |-> <<KEYBOARD_REPORT_ID, step.event.modifiers % 256, 0>>
                    \o FirstSix(Sorted(state.pressed_keys))]

\* C8, first part: the report written for the seventh key held carries the first six
\* keys in ascending order
SeventhPressReport == (KeyPressLeft(7) /\ ~RaisedFrom("write")) => step.written = <<SixKeyReport>>

\* C8: with seven distinct keys held, the keyboard report written for the seventh
\* press carries exactly the first six in ascending key code order, and for the key
\* codes the parser delivers no error of the keyboard report path leaves the loop.
C8_KeyCapNeverRaises == SeventhPressReport /\ ~RaisedFrom("write")

\* C9: the pressed-key set never holds more than six key codes.
C9_PressedKeysCapped == Cardinality(state.pressed_keys) <= 6

\* this step is the loop body of run_bridge run for the next event
Handles == pending # <<>> /\ state'.event_count = state.event_count + 1

\* the bit of the button mask that stands for a button: 1 for button 1, 2 for
\* button 2, 4 for button 3
ButtonBit(button) == IF button = 1 THEN 1 ELSE IF button = 2 THEN 2 ELSE 4

\* the loop body run for a button event sets or clears the bit of button 1, 2 or 3
\* as the event says and leaves the other bits; for another button it leaves the
\* mask; it raises nothing
ButtonStep ==
    (Handles /\ Head(pending).type = "MouseButtonEvent")
        => LET e == Head(pending) IN
            /\ outcome' = "running" /\ error' = None
            /\ IF e.button \in {1, 2, 3}
               THEN \A b \in {1, 2, 3} :
                        HasBit(state'.buttons, ButtonBit(b))
                            = IF b = e.button THEN e.pressed ELSE HasBit(state.buttons, ButtonBit(b))
               ELSE state'.buttons = state.buttons

\* C14: the button mask starts at 0 and stays within 0..7; every button event
\* handled by the bridge loop makes the bit of button 1, 2 or 3 say whether that
\* event was a press and leaves the other bits, so that each bit tells whether the
\* most recent event of its button was a press; an event of another button leaves
\* the mask unchanged and raises no error.
C14_ButtonMask ==
    /\ state.buttons = 0
    /\ [](state.buttons \in 0..7)
    /\ [][ButtonStep]_vars

\* C14 witness: buttons 1, 2 and 3 were pressed and button 2 released: the mask is 5
C14_Witness ==
    /\ state.event_count = 4 /\ state.buttons = 5
    /\ step # None /\ step.event = MouseButtonEvent(2, FALSE)

\* C15: a zero-length read moves the session from Streaming to Closed: the event
\* iteration ends and run_bridge returns, the transport is closed, nothing is read,
\* handled or written by that step, and no step follows in a closed session.
C15_ZeroLengthReadCloses ==
    /\ [][RecvEnd => /\ session = "Streaming" /\ session' = "Closed"
                     /\ socketOpen /\ ~socketOpen'
                     /\ outcome' = "returned" /\ error' = None
                     /\ state' = state /\ step' = step /\ wire' = wire /\ buffer' = buffer]_vars
    /\ [](session = "Closed" => ~socketOpen)
    /\ [][session = "Closed" => UNCHANGED vars]_vars

\* C15 witness: the peer closed after a report was written, and the read of no data
\* ended the session
C15_Witness ==
    /\ session = "Closed" /\ outcome = "returned" /\ ~socketOpen /\ peerClosed
    /\ step # None /\ Len(step.written) > 0

\* C16: an interruption received while Streaming ends in an orderly shutdown: the
\* transport is closed and the final state report (log_health with connected false)
\* is made before run_bridge returns, whatever the health interval.
C16_InterruptReportsState ==
    outcome = "interrupted"
        => /\ session = "Closed" /\ ~socketOpen /\ error = None
           /\ healthLog = log_health(state, FALSE)

\* the configuration has no screen, or a coordinate range with a maximum below
\* its minimum
BadConfiguration(cfg) ==
    \/ Len(cfg.screens) = 0
    \/ cfg.hid_range.max_x < cfg.hid_range.min_x
    \/ cfg.hid_range.max_y < cfg.hid_range.min_y

\* C17: with an empty screen list or a degenerate coordinate range run_bridge
\* raises a configuration error before it connects and before any report is
\* written: the session never leaves Disconnected.
C17_BadConfigurationRejected ==
    (args # None /\ BadConfiguration(args.layout))
        => /\ session = "Disconnected" /\ ~socketOpen /\ step = None
           /\ outcome \in {"running", "raised"}

\* C18: a failed connect makes run_bridge exit with status 1 without entering
\* Streaming and without a report written; a socket error in the stream closes
\* the transport and makes run_bridge exit with status 1, no event being handled
\* by that step; nothing happens after the exit.
C18_TransportErrorFatal ==
    /\ [][(Connect(FALSE) /\ Len(args.layout.screens) > 0)
            => /\ outcome' = "SystemExit" /\ error'.type = "SystemExit"
               /\ session' = "Disconnected" /\ ~socketOpen'
               /\ step' = None /\ state' = RuntimeState]_vars
    /\ [][RecvError
            => /\ outcome' = "SystemExit" /\ error'.type = "SystemExit"
               /\ session' = "Closed" /\ ~socketOpen'
               /\ step' = step /\ state' = state]_vars
    /\ [][outcome = "SystemExit" => UNCHANGED vars]_vars

\* C18 witness: the socket failed after an event was handled
C18_Witness ==
    /\ outcome = "SystemExit" /\ error # None /\ error.from = "recv"
    /\ session = "Closed" /\ ~socketOpen /\ state.event_count > 0

-----------------------------------------------------------------------------
(* Properties of the gadget *)

\* the device a write_mouse call is to write to
MouseSink == IF built.absolute /\ built.absolute_enabled THEN "absolute_mouse" ELSE "mouse"

\* C19: a write_mouse call appends exactly one report to exactly one mouse device:
\* an absolute report to the absolute device when the call is absolute and the
\* gadget has absolute enabled, otherwise a relative report to the relative device;
\* the other mouse device and the keyboard device keep their contents.
C19_WriteMouseOneSink ==
    Called("write_mouse")
        => /\ built.result.type = "sinks"
           /\ LET before == built.sinks
                  after  == built.result.sinks
              IN  /\ Len(after[MouseSink]) = Len(before[MouseSink]) + 1
                  /\ SubSeq(after[MouseSink], 1, Len(before[MouseSink])) = before[MouseSink]
                  /\ LET report == after[MouseSink][Len(after[MouseSink])]
                     IN  IF MouseSink = "absolute_mouse"
                         THEN Len(report) = 6 /\ report[1] = ABSOLUTE_MOUSE_REPORT_ID
                         ELSE Len(report) = 5 /\ report[1] = MOUSE_REPORT_ID
                  /\ \A path \in {"keyboard", "mouse", "absolute_mouse"} \ {MouseSink} :
                        after[path] = before[path]

\* C19 witness: an absolute call to a gadget with absolute disabled wrote the
\* relative report of (120, 240) to the relative device
C19_Witness ==
    /\ Called("write_mouse") /\ built.absolute /\ ~built.absolute_enabled
    /\ built.sinks = EmptySinks /\ built.buttons = 0 /\ built.wheel = 0
    /\ built.result.sinks = [keyboard |-> <<>>, mouse |-> <<<<2, 0, 120, 127, 0>>>>,
                             absolute_mouse |-> <<>>]

-----------------------------------------------------------------------------
(* Properties of the parser buffer *)

\* buf holds less than one frame: fewer than 4 bytes, or a prefix with fewer payload
\* bytes than it announces
LessThanOneFrame(buf) == Len(buf) < 4 \/ Len(buf) < 4 + FromBytesBE4(buf)

\* the part of the first n bytes of the stream that follows their last complete frame
TailAfterFrames(n) ==
    SubSeq(stream, Len(EncodeStream(SubSeq(frames, 1, FramesWithin(frames, n)))) + 1, n)

\* this step is a feed call given the next n bytes of the stream, and it returns
FeedReturns(n) == fed' = fed + n /\ ~feed(buffer, SubSeq(stream, fed + 1, fed + n)).raised

\* C20: after every feed call that returns, the buffer is exactly the bytes fed so
\* far that follow the last complete frame, and it holds less than one full frame;
\* no unconsumed byte is discarded.
C20_BufferIsUnconsumedTail ==
    [][\A n \in 0..Len(stream) :
            FeedReturns(n) => (buffer' = TailAfterFrames(fed + n) /\ LessThanOneFrame(buffer'))]_vars

\* C20 witness: after a frame was consumed the buffer holds the prefix and a part
\* of the payload of the next frame
C20_Witness ==
    /\ feedStatus = "ok" /\ FramesFed = 1 /\ Len(frames) = 2
    /\ Len(buffer) > 4 /\ Len(returned) = 1 /\ buffer = TailAfterFrames(fed)

-----------------------------------------------------------------------------
(* Properties of the translator: positions *)

\* the normalized position as described: an absolute move as it is, a relative
\* move added to the stored position, (0, 0) for a relative move with none stored
DescribedPosition(last, event) ==
    IF event.absolute THEN Position(event.x, event.y)
    ELSE IF last = None THEN Position(0, 0)
    ELSE Position(last.x + event.x, last.y + event.y)

\* C21: the position a move normalizes to is the event's own for an absolute move,
\* the stored position plus the delta for a relative move with a position stored,
\* and (0, 0) whatever the delta for a relative move with no position stored; an
\* in-screen move stores it.
C21_NormalizedPosition ==
    TranslatedMove
        => /\ normalize_position(lastCall.position, lastCall.event)
                = DescribedPosition(lastCall.position, lastCall.event)
           /\ Len(lastCall.out) > 0
                => last_position = DescribedPosition(lastCall.position, lastCall.event)

\* the position stored before the last call, (0, 0) when none was
PreviousOrOrigin == IF lastCall.position = None THEN Position(0, 0) ELSE lastCall.position

\* C22: in relative output mode an in-screen move returns, after the ScreenEdge
\* events, one PointerReport(dx, dy, absolute = false) with (dx, dy) the normalized
\* position minus the stored one, the stored one counting as (0, 0) when there is
\* none; in both output modes the normalized position is stored as last.
C22_RelativeDelta ==
    (TranslatedMove /\ ScreenOf(MovePoint) # None)
        => /\ last_position = MovePoint
           /\ ~use_absolute
                => /\ Len(lastCall.out) > 0
                   /\ lastCall.out[Len(lastCall.out)]
                        = HidPointerEvent(MovePoint.x - PreviousOrOrigin.x,
                                          MovePoint.y - PreviousOrOrigin.y, FALSE)
                   /\ \A i \in 1..(Len(lastCall.out) - 1) : lastCall.out[i].type # "HidPointerEvent"

\* the last call was a move that returned nothing
DroppedMove == TranslatedMove /\ lastCall.out = <<>>

\* C23: a move whose normalized point is in no configured screen returns nothing and
\* leaves the current screen and the last position as they were; so no leave event
\* is returned, and a later move back into the screen that is still current returns
\* no enter event.
C23_OutsideMoveIsNoOp ==
    /\ []((TranslatedMove /\ \A i \in 1..Len(config.screens) : ~Inside(config.screens[i], MovePoint))
            => /\ lastCall.out = <<>>
               /\ current_screen = lastCall.screen
               /\ last_position = lastCall.position)
    /\ [][(DroppedMove /\ current_screen # None
            /\ TranslatedMove' /\ ScreenOf(MovePoint)' = current_screen)
            => /\ Len(lastCall'.out) = 1
               /\ lastCall'.out[1].type = "HidPointerEvent"
               /\ current_screen' = current_screen]_vars

\* C23 witness: with the left screen current, a move to a point in no screen was
\* dropped and the left screen is still current
C23_Witness ==
    /\ TranslatedMove /\ lastCall.out = <<>>
    /\ lastCall.screen # None /\ lastCall.screen.name = NameLeft
    /\ current_screen = lastCall.screen /\ last_position = lastCall.position
    /\ ScreenOf(MovePoint) = None

\* c is the quotient n / d, d > 0, rounded to the nearest integer
Rounded(c, n, d) == 2 * (c * d - n) <= d /\ 2 * (n - c * d) <= d

\* the properties described for the coordinate c reported for the screen-local
\* value v of an axis of the given extent: c is targetMin + v / (extent - 1) *
\* (targetMax - targetMin) rounded, within the range, at its ends for the ends of
\* the axis, and targetMin on an axis of one pixel
DescribedAxis(c, v, extent, targetMin, targetMax) ==
    /\ extent > 1 => Rounded(c, targetMin * (extent - 1) + v * (targetMax - targetMin), extent - 1)
    /\ targetMin <= c /\ c <= targetMax
    /\ v = 0 => c = targetMin
    /\ (extent > 1 /\ v = extent - 1) => c = targetMax
    /\ extent = 1 => c = targetMin

\* C24: in absolute output mode, for a screen of width and height at least 1, a
\* range with max >= min on both axes and a point inside the screen, the pointer
\* report returned carries on each axis round(targetMin + v / (extent - 1) *
\* (targetMax - targetMin)) for the screen-local value v; it lies within
\* [targetMin, targetMax], is targetMin for v = 0 and targetMax for v = extent - 1,
\* and is targetMin on an axis of one pixel.
C24_AbsoluteScaling ==
    (TranslatedMove /\ use_absolute /\ ScreenOf(MovePoint) # None
     /\ config.hid_range.max_x >= config.hid_range.min_x
     /\ config.hid_range.max_y >= config.hid_range.min_y)
        => LET screen == ScreenOf(MovePoint)
               report == lastCall.out[Len(lastCall.out)]
           IN  /\ screen.width >= 1 /\ screen.height >= 1
               /\ report.type = "HidPointerEvent" /\ report.absolute
               /\ DescribedAxis(report.x, MovePoint.x - screen.x, screen.width,
                                config.hid_range.min_x, config.hid_range.max_x)
               /\ DescribedAxis(report.y, MovePoint.y - screen.y, screen.height,
                                config.hid_range.min_y, config.hid_range.max_y)

\* C24 witness: on the five-pixel-wide screen at (3, 0) with the range -5 .. 6 by
\* 7 .. 7 the move to (5, 1), halfway across, was reported as (0, 7)
C24_Witness ==
    /\ TranslatedMove /\ use_absolute
    /\ config.hid_range = AbsoluteCoordinateRange(-5, 7, 6, 7)
    /\ MovePoint = Position(5, 1)
    /\ lastCall.out[Len(lastCall.out)] = HidPointerEvent(0, 7, TRUE)

-----------------------------------------------------------------------------
(* Properties of the translator: the ScreenEdge events it synthesizes *)

Translated == lastCall # None /\ lastCall.type = "translate"

\* the ScreenEdge events the last call synthesized: those returned for a move; the
\* one returned for a ScreenEdge event of the parser is the event passed through
SynthesizedEdges ==
    IF lastCall.event.type = "MouseMoveEvent"
    THEN SelectSeq(lastCall.out, LAMBDA e : e.type = "ScreenTransitionEvent")
    ELSE <<>>

Configured(screen) == \E i \in 1..Len(config.screens) : config.screens[i] = screen

\* C26: the ScreenEdge events synthesized are well-formed.  The current screen is
\* absent until the first enter and never absent after it; a call synthesizes
\* nothing and keeps the current screen, or, with no current screen, an enter alone,
\* or leave(A), enter(B) next to each other for the current screen A and another
\* screen B; the current screen is then the configured screen the enter names.  An
\* event that is not a move is returned alone and changes neither the current
\* screen nor the last position.
C26_ScreenEdgesWellFormed ==
    /\ [](lastCall = None => current_screen = None)
    /\ [][current_screen # None => current_screen' # None]_vars
    /\ [](Translated
            => /\ current_screen = None \/ Configured(current_screen)
               /\ \/ /\ SynthesizedEdges = <<>>
                     /\ current_screen = lastCall.screen
                  \/ /\ lastCall.screen = None /\ current_screen # None
                     /\ SynthesizedEdges = <<ScreenTransitionEvent(current_screen.name, TRUE)>>
                     /\ lastCall.out[1] = SynthesizedEdges[1]
                  \/ /\ lastCall.screen # None /\ current_screen \notin {None, lastCall.screen}
                     /\ SynthesizedEdges = <<ScreenTransitionEvent(lastCall.screen.name, FALSE),
                                             ScreenTransitionEvent(current_screen.name, TRUE)>>
                     /\ lastCall.screen.name # current_screen.name
                     /\ SubSeq(lastCall.out, 1, 2) = SynthesizedEdges
               /\ lastCall.event.type # "MouseMoveEvent"
                    => /\ lastCall.out = <<lastCall.event>>
                       /\ current_screen = lastCall.screen
                       /\ last_position = lastCall.position)

\* C26 witness: with the left screen current and a position stored, the parser's
\* ScreenEdge(right, entered) was passed through
C26_Witness ==
    /\ Translated /\ lastCall.event = ScreenTransitionEvent(NameRight, TRUE)
    /\ lastCall.out = <<lastCall.event>>
    /\ current_screen # None /\ current_screen.name = NameLeft
    /\ last_position # None

-----------------------------------------------------------------------------
(* Properties of the bridge loop: button events and the pointer *)

\* the mouse report a button event is described to write: the mask with the
\* coordinates of the latest absolute pointer report in absolute mode, with a zero
\* delta in relative mode
ReEmittedReport(relative, buttons, latest) ==
    IF relative
    THEN [type |-> "write", path |-> "mouse", report |-> <<MOUSE_REPORT_ID, buttons, 0, 0, 0>>]
    ELSE [type |-> "write", path |-> "absolute_mouse",
          report |-> <<ABSOLUTE_MOUSE_REPORT_ID, buttons>>
                        \o ToBytesLE2(latest.x) \o ToBytesLE2(latest.y)]

\* C25: the loop body run for a button event writes exactly one mouse report; it
\* carries the updated button mask and, in absolute mode, the coordinates of the
\* latest absolute pointer report of the session, so that the pointer stays where
\* the host has it, in relative mode a zero delta.
C25_ButtonReEmitsPosition ==
    [][(Handles /\ Head(pending).type = "MouseButtonEvent")
        => /\ Len(step'.written) = 1
           /\ args.relative \/ state.last_absolute # None
           /\ step'.written[1] = ReEmittedReport(args.relative, state'.buttons, state.last_absolute)
           /\ state'.last_absolute = state.last_absolute]_vars

====
